---- MODULE Spec2Model ----
(***************************************************************************)
(* V-tail glider simulation core (src/core_sim.py): the ruddervator mixer, *)
(* the per-tick integrator step_sim, the history recorder and the          *)
(* Flying -> Impacted state machine.                                       *)
(*                                                                         *)
(* The program computes in floating point; the model computes in fixed     *)
(* point, every quantity an integer count of a unit:                       *)
(*   controls, fractions, glide ratio   1/ONE        (ONE = 1.0)           *)
(*   time                               1/TPS second                       *)
(*   length, altitude                   centimetre                         *)
(*   speed, wind                        centimetre per second              *)
(*   angles (bank, heading, yaw rate)   1/100 degree                       *)
(*   energy                             (cm/s)^2, held doubled             *)
(* Products are divided back to the unit in stages so that every           *)
(* intermediate value stays inside TLC's 32-bit integers; \div rounds      *)
(* toward minus infinity.                                                  *)
(***************************************************************************)
EXTENDS Integers, Sequences, FiniteSets, TLC

VARIABLES
    p,       \* the SimParams of the run (never written by step_sim)
    s,       \* the SimState
    tick,    \* the local values of the last step_sim call that ran past line 147
    calls,   \* driver: step_sim calls made with freely chosen arguments
    noops,   \* driver: calls that returned at line 147 (state not alive)
    auto,    \* driver: scripted approach ticks flown (approach driver only)
    mixer    \* a ruddervator_mix call on its own: arguments and result

vars == <<p, s, tick, calls, noops, auto, mixer>>

-----------------------------------------------------------------------------
(* Units *)

ONE == 10 ^ 3            \* 1.0 for controls, fractions and glide ratios
TPS == 60 * 10           \* time units per second: dt = 1/60 s is 10 units
CM == 10 ^ 2             \* centimetres per metre, also 1/100 degree per degree

-----------------------------------------------------------------------------
(* Bounds of the model *)

MaxCalls == 3            \* step_sim calls per run of the free driver
FreeAlt == 100           \* the scripted approach hands over below 1 m

-----------------------------------------------------------------------------
(* Arithmetic helpers *)

Max(a, b) == IF a >= b THEN a ELSE b
Min(a, b) == IF a <= b THEN a ELSE b
Abs(a) == IF a < 0 THEN -a ELSE a

\* clamp(x, lo, hi) = max(lo, min(hi, x))
clamp(x, lo, hi) == Max(lo, Min(hi, x))

\* 0.5 * x
Half(x) == x \div 2

\* Largest root with root*root <= n, for 0 <= n < 2^31, by bisection.
RECURSIVE ISqrtBetween(_, _, _)
ISqrtBetween(n, lo, hi) ==
    IF lo >= hi THEN lo
    ELSE LET mid == (lo + hi + 1) \div 2
         IN  IF mid * mid <= n THEN ISqrtBetween(n, mid, hi)
                               ELSE ISqrtBetween(n, lo, mid - 1)

\* math.sqrt, rounded down to the unit
ISqrt(n) == ISqrtBetween(n, 0, 46340)

\* math.hypot: the arguments are scaled down until their squares fit, as
\* hypot implementations scale to avoid overflow.
RECURSIVE HypotAbs(_, _)
HypotAbs(a, b) ==
    IF Max(a, b) <= 30000 THEN ISqrt(a * a + b * b)
    ELSE 2 * HypotAbs(a \div 2, b \div 2)

hypot(dx, dy) == HypotAbs(Abs(dx), Abs(dy))

\* vlen(x, y)
vlen(x, y) == hypot(x, y)

\* ONE * sin(a) for an angle a in 1/100 degree (Bhaskara's rational
\* approximation on the half turn, in 1/10 degree).
SinHalfTurn(d) ==
    LET q == d * (1800 - d)
    IN  (4000 * (q \div 4)) \div ((4050000 - q) \div 4)

Sin(a) ==
    LET d == (a % 36000) \div 10
    IN  IF d <= 1800 THEN SinHalfTurn(d) ELSE -SinHalfTurn(d - 1800)

\* ONE * cos(a) = ONE * sin(a + 90 degrees)
Cos(a) == Sin(a + 9000)

-----------------------------------------------------------------------------
(* SimParams *)

DefaultParams ==
    [ g                    |-> 981,      \* 9.81 m/s^2, in cm/s^2
      start_alt_m          |-> 90000,    \* 900.0 m
      start_x_m            |-> 0,
      start_y_m            |-> 0,
      start_heading_deg    |-> 0,
      target_x_m           |-> 240000,   \* 2400.0 m
      target_y_m           |-> 70000,    \* 700.0 m
      target_radius_m      |-> 6000,     \* 60.0 m
      mass_kg              |-> 1100,
      v_min                |-> 1600,     \* 16.0 m/s
      v_max                |-> 6000,     \* 60.0 m/s
      v_trim               |-> 2600,     \* 26.0 m/s
      gr_min               |-> 4000,     \* 4.0
      gr_max               |-> 18000,    \* 18.0
      stall_pitch_eff      |-> 750,      \* 0.75
      stall_v              |-> 1800,     \* 18.0 m/s
      stall_gr_factor      |-> 550,      \* 0.55
      stall_sink_boost     |-> 1350,     \* 1.35
      pitch_response_per_s |-> 1600,     \* 1.6 per second
      yaw_rate_deg_s       |-> 5500,     \* 55.0 degrees per second
      bank_max_deg         |-> 4000,     \* 40.0 degrees
      bank_response_per_s  |-> 2000,     \* 2.0 per second
      bank_sink_factor     |-> 300,      \* 0.30
      drag_k               |-> 12,       \* 0.012 per metre, in 1/ONE per metre
      wind_x_mps           |-> 220,      \* 2.2 m/s
      wind_y_mps           |-> -100,     \* -1.0 m/s
      gust_mps             |-> 35,       \* 0.35 m/s
      ground_alt_m         |-> 0 ]

\* A release a few metres above ground, next to the target: impact is a few
\* ticks away (the dashboard sets start_alt_m from a slider).
LowRelease ==
    [DefaultParams EXCEPT !.start_alt_m = 300, !.target_x_m = 0,
                          !.target_y_m = -10000, !.start_heading_deg = 4500]

\* Trim speed at the upper speed bound, no stall penalty region by speed.
FastTrim ==
    [LowRelease EXCEPT !.v_trim = 6000, !.start_alt_m = 1500]

ParamChoices == {DefaultParams, LowRelease, FastTrim}

-----------------------------------------------------------------------------
(* SimState *)

None == [t_s |-> 0, x_m |-> 0, y_m |-> 0, miss_m |-> 0,
         on_target |-> FALSE, present |-> FALSE]

\* reset_state(p); the fields it does not name take the dataclass defaults.
\* heading_rad is held in 1/100 degree, the unit of start_heading_deg.
reset_state(q) ==
    [ x_m         |-> q.start_x_m,
      y_m         |-> q.start_y_m,
      alt_m       |-> q.start_alt_m,
      heading_rad |-> q.start_heading_deg,
      pitch_cmd   |-> 150,
      yaw_cmd     |-> 0,
      left_rv     |-> 0,
      right_rv    |-> 0,
      pitch_eff   |-> 150,
      yaw_eff     |-> 0,
      bank_deg    |-> 0,
      v_air_mps   |-> q.v_trim,
      t_s         |-> 0,
      alive       |-> TRUE,
      impact      |-> None,
      hist        |-> << >> ]

-----------------------------------------------------------------------------
(* ruddervator_mix *)

\* Variant of ruddervator_mix that reports the commands as the effective
\* controls instead of re-deriving them from the saturated surfaces
\* (sensitivity of C7).
ruddervator_mix_from_commands(pitch_cmd, yaw_cmd) ==
    LET pc    == clamp(pitch_cmd, -ONE, ONE)
        yc    == clamp(yaw_cmd, -ONE, ONE)
    IN  [ left      |-> clamp(pc + yc, -ONE, ONE),
          right     |-> clamp(pc - yc, -ONE, ONE),
          pitch_eff |-> pc,
          yaw_eff   |-> yc ]

\* lines 27-37
ruddervator_mix(pitch_cmd, yaw_cmd) ==
    LET pc    == clamp(pitch_cmd, -ONE, ONE)
        yc    == clamp(yaw_cmd, -ONE, ONE)
        left  == clamp(pc + yc, -ONE, ONE)
        right == clamp(pc - yc, -ONE, ONE)
    IN  [ left      |-> left,
          right     |-> right,
          pitch_eff |-> clamp(Half(left + right), -ONE, ONE),
          yaw_eff   |-> clamp(Half(left - right), -ONE, ONE) ]

-----------------------------------------------------------------------------
(* step_sim, piece by piece *)

\* compute_glide_ratio(p, pitch_eff)
compute_glide_ratio(q, pitch_eff) ==
    LET t == Half(pitch_eff + ONE)
    IN  q.gr_min + ((q.gr_max - q.gr_min) * t) \div ONE

\* Variant of StallTest that wants both conditions (sensitivity of C9).
StallTestBoth(q, pitch_eff, v_air) ==
    (pitch_eff > q.stall_pitch_eff) /\ (v_air < q.stall_v)

\* line 170: stall = (s.pitch_eff > p.stall_pitch_eff) or (s.v_air_mps < p.stall_v),
\* read after the lag update of pitch_eff and before the update of v_air_mps
StallTest(q, pitch_eff, v_air) ==
    (pitch_eff > q.stall_pitch_eff) \/ (v_air < q.stall_v)

\* lines 171-172: gr *= p.stall_gr_factor when stalled
StallGr(q, gr, stall) ==
    IF stall THEN (gr * q.stall_gr_factor) \div ONE ELSE gr

\* lines 176, 179: gamma = atan2(1, max(gr, 0.1)); sink = v * sin(gamma).
\* sin(atan2(1, r)) = 1 / sqrt(1 + r^2).
BaseSink(v_air, gr) ==
    LET r == Max(gr, ONE \div 10)
    IN  (v_air * ONE) \div ISqrt(ONE * ONE + r * r)

\* lines 176, 180: fwd = v * cos(gamma); cos(atan2(1, r)) = r / sqrt(1 + r^2)
BaseFwd(v_air, gr) ==
    LET r == Max(gr, ONE \div 10)
    IN  (v_air * r) \div ISqrt(ONE * ONE + r * r)

\* lines 183-184: sink *= 1 + bank_sink_factor * bank_frac^2
BankSink(q, sink, bank_deg) ==
    LET bank_frac == IF q.bank_max_deg > 0
                     THEN clamp((bank_deg * ONE) \div q.bank_max_deg, 0, ONE)
                     ELSE 0
        sq == (bank_frac * bank_frac) \div ONE
    IN  (sink * (ONE + (q.bank_sink_factor * sq) \div ONE)) \div ONE

\* lines 186-187: sink *= p.stall_sink_boost when stalled
StallSink(q, sink, stall) ==
    IF stall THEN (sink * q.stall_sink_boost) \div ONE ELSE sink

\* lines 194-195: (random.random() * 2 - 1) * p.gust_mps, r = random.random()
Gust(q, r) == ((r * 2 - ONE) * q.gust_mps) \div ONE

\* lines 208-209: s.x_m += vx * dt (and y alike)
Advance(x_m, vx, dt) == x_m + (vx * dt) \div TPS

\* Variant of AltUpdate with the sign of the sink reversed (sensitivity of C8).
AltClimb(alt_m, sink, dt) == alt_m + (sink * dt) \div TPS

\* line 210: s.alt_m -= sink * dt
AltUpdate(alt_m, sink, dt) == alt_m - (sink * dt) \div TPS

\* line 219, doubled: 2 * drag_k * v^3 * dt
DragLoss(q, v_air, dt) ==
    LET kv2  == (v_air * v_air * q.drag_k) \div (10 * ONE)
        rate == (kv2 * v_air) \div 10      \* drag_k * v^3 in (cm/s)^2 per second
    IN  (rate \div TPS) * 2 * dt

\* Variant of EnergySpeed without the final clamp (sensitivity of C5).
EnergySpeedUnclamped(q, st, alt_m, dt) ==
    LET pot  == 2 * q.g * alt_m
        e    == Max(0, pot + st.v_air_mps * st.v_air_mps
                           - DragLoss(q, st.v_air_mps, dt))
    IN  ISqrt(Max(0, e - pot))

\* Variant of EnergySpeed that forms the energy with the altitude at the
\* start of the call and solves it back with the updated one, so that the
\* altitude lost turns into speed (sensitivity of C10).
EnergySpeedOldAlt(q, st, alt_m, dt) ==
    LET e    == Max(0, 2 * q.g * st.alt_m + st.v_air_mps * st.v_air_mps
                           - DragLoss(q, st.v_air_mps, dt))
    IN  clamp(ISqrt(Max(0, e - 2 * q.g * alt_m)), q.v_min, q.v_max)

\* lines 215-228: the energy update, on doubled energies. st is the state at
\* the start of the call (its v_air_mps is not yet written), alt_m the
\* altitude already updated by line 210: e = g*alt + v^2/2 - drag*dt,
\* floored at 0, then v = sqrt(2 * max(0, e - g*alt)) clamped to
\* [v_min, v_max]
EnergySpeed(q, st, alt_m, dt) ==
    LET pot  == 2 * q.g * alt_m
        e0   == pot + st.v_air_mps * st.v_air_mps
        e1   == e0 - DragLoss(q, st.v_air_mps, dt)
        e    == Max(0, e1)
        kin  == Max(0, e - pot)
    IN  clamp(ISqrt(kin), q.v_min, q.v_max)

\* Variant of SampleDue with >= for > (sensitivity of C4).
SampleDueAtLeast(hist, t_s) ==
    (Len(hist) = 0) \/ (t_s - hist[Len(hist)].t_s >= TPS \div 10)

\* line 234: the sampling test, 0.10 s
SampleDue(hist, t_s) ==
    (Len(hist) = 0) \/ (t_s - hist[Len(hist)].t_s > TPS \div 10)

NoTick ==
    [ ran |-> FALSE, dt |-> 0, v0 |-> 0, alt0 |-> 0, x0 |-> 0, y0 |-> 0,
      pitch_eff_cmd |-> 0, yaw_eff_cmd |-> 0,
      gr_lin |-> 0, stall |-> FALSE, gr |-> 0, sink |-> 0,
      alt_upd |-> 0, sampled |-> FALSE ]

\* lines 149-231 of step_sim: commands, mixer, lags, glide ratio, stall,
\* sink, heading, wind, position, altitude, speed, time. r1 and r2 are the
\* two values random.random() returns. The result is the state after line
\* 231 and the call's local values (sampled is set by step_sim).
Integrate(q, st, dt, pitch_in, yaw_in, r1, r2) ==
    LET pitch_cmd == clamp(st.pitch_cmd + (((pitch_in * 9) \div 10) * dt) \div TPS,
                           -ONE, ONE)
        yaw_cmd   == clamp(yaw_in, -ONE, ONE)
        m         == ruddervator_mix(pitch_cmd, yaw_cmd)
        a         == clamp((q.pitch_response_per_s * dt) \div TPS, 0, ONE)
        pitch_eff == st.pitch_eff + ((m.pitch_eff - st.pitch_eff) * a) \div ONE
        yaw_eff   == m.yaw_eff
        bank_target == clamp((Abs(yaw_eff) * q.bank_max_deg) \div ONE,
                             0, q.bank_max_deg)
        b         == clamp((q.bank_response_per_s * dt) \div TPS, 0, ONE)
        bank_deg  == st.bank_deg + ((bank_target - st.bank_deg) * b) \div ONE
        gr_lin    == compute_glide_ratio(q, pitch_eff)
        stall     == StallTest(q, pitch_eff, st.v_air_mps)
        gr        == StallGr(q, gr_lin, stall)
        fwd       == BaseFwd(st.v_air_mps, gr)
        sink      == StallSink(q, BankSink(q, BaseSink(st.v_air_mps, gr), bank_deg),
                               stall)
        yaw_rate  == (q.yaw_rate_deg_s * yaw_eff) \div ONE
        heading   == st.heading_rad + (yaw_rate * dt) \div TPS
        wind_x    == q.wind_x_mps + Gust(q, r1)
        wind_y    == q.wind_y_mps + Gust(q, r2)
        vx        == (fwd * Cos(heading)) \div ONE + wind_x
        vy        == (fwd * Sin(heading)) \div ONE + wind_y
        alt_upd   == AltUpdate(st.alt_m, sink, dt)
    IN  [ s |-> [ st EXCEPT
                  !.pitch_cmd   = pitch_cmd,
                  !.yaw_cmd     = yaw_cmd,
                  !.left_rv     = m.left,
                  !.right_rv    = m.right,
                  !.pitch_eff   = pitch_eff,
                  !.yaw_eff     = yaw_eff,
                  !.bank_deg    = bank_deg,
                  !.heading_rad = heading,
                  !.x_m         = Advance(st.x_m, vx, dt),
                  !.y_m         = Advance(st.y_m, vy, dt),
                  !.alt_m       = alt_upd,
                  !.v_air_mps   = EnergySpeed(q, st, alt_upd, dt),
                  !.t_s         = st.t_s + dt ],
          tick |-> [ ran |-> TRUE, dt |-> dt, v0 |-> st.v_air_mps,
                     alt0 |-> st.alt_m, x0 |-> st.x_m, y0 |-> st.y_m,
                     pitch_eff_cmd |-> m.pitch_eff, yaw_eff_cmd |-> m.yaw_eff,
                     gr_lin |-> gr_lin, stall |-> stall, gr |-> gr,
                     sink |-> sink, alt_upd |-> alt_upd, sampled |-> FALSE ] ]

\* lines 233-255: the history sample of the tick, appended when due
RecordSample(q, st, tk) ==
    IF SampleDue(st.hist, st.t_s)
    THEN [ st EXCEPT !.hist = Append(@,
             [ t_s |-> st.t_s, x_m |-> st.x_m, y_m |-> st.y_m,
               alt_m |-> st.alt_m, v_air_mps |-> st.v_air_mps,
               heading_deg |-> st.heading_rad % (360 * CM),
               pitch_cmd |-> st.pitch_cmd, yaw_cmd |-> st.yaw_cmd,
               left_rv |-> st.left_rv, right_rv |-> st.right_rv,
               pitch_eff |-> st.pitch_eff, yaw_eff |-> st.yaw_eff,
               bank_deg |-> st.bank_deg,
               miss_m |-> hypot(st.x_m - q.target_x_m, st.y_m - q.target_y_m),
               stall |-> IF tk.stall THEN ONE ELSE 0, gr |-> tk.gr ]) ]
    ELSE st

\* Variant of ImpactRecord with the target's coordinates swapped
\* (sensitivity of C3).
ImpactRecordSwapped(q, st) ==
    LET miss == hypot(st.x_m - q.target_y_m, st.y_m - q.target_x_m)
    IN  [ t_s |-> st.t_s, x_m |-> st.x_m, y_m |-> st.y_m, miss_m |-> miss,
          on_target |-> (miss <= q.target_radius_m), present |-> TRUE ]

\* lines 261-268: the impact record
ImpactRecord(q, st) ==
    LET miss == hypot(st.x_m - q.target_x_m, st.y_m - q.target_y_m)
    IN  [ t_s |-> st.t_s, x_m |-> st.x_m, y_m |-> st.y_m, miss_m |-> miss,
          on_target |-> (miss <= q.target_radius_m), present |-> TRUE ]

\* Variant of ImpactCheck that leaves the altitude below ground
\* (sensitivity of C2).
ImpactCheckNoClamp(q, st) ==
    IF st.alt_m <= q.ground_alt_m
    THEN [ st EXCEPT !.alive = FALSE, !.impact = ImpactRecord(q, st) ]
    ELSE st

\* lines 257-268: the impact check
ImpactCheck(q, st) ==
    IF st.alt_m <= q.ground_alt_m
    THEN [ st EXCEPT !.alt_m = q.ground_alt_m, !.alive = FALSE,
                     !.impact = ImpactRecord(q, st) ]
    ELSE st

\* step_sim(p, s, dt, pitch_in, yaw_in) on an alive state
step_sim(q, st, dt, pitch_in, yaw_in, r1, r2) ==
    LET i == Integrate(q, st, dt, pitch_in, yaw_in, r1, r2)
        h == RecordSample(q, i.s, i.tick)
    IN  [ s    |-> ImpactCheck(q, h),
          tick |-> [i.tick EXCEPT !.sampled = (Len(h.hist) # Len(st.hist))] ]

-----------------------------------------------------------------------------
(* Drivers *)

\* The mixer on its own is idle in the flight specifications.
MixIdle == [pitch_cmd |-> 0, yaw_cmd |-> 0, done |-> FALSE,
            out |-> [left |-> 0, right |-> 0, pitch_eff |-> 0, yaw_eff |-> 0]]

\* dt of a call: -0.1 s, 0, 0.2 s, 5 s
DtChoices == {-(TPS \div 10), 0, TPS \div 5, 5 * TPS}

\* (pitch_in, yaw_in) of a call, the yaw stick also beyond its range
StickChoices == {<<ONE, 0>>, <<-ONE, -2 * ONE>>}

\* values of random.random(), which lies in [0, 1)
RandChoices == {<<0, 0>>, <<ONE - 1, Half(ONE)>>}

\* Variant of StepDead without the early return: the body runs on the
\* impacted state (sensitivity of C1).
StepDeadRuns(dt, pitch_in, yaw_in) ==
    /\ ~s.alive
    /\ s' = step_sim(p, s, dt, pitch_in, yaw_in, 0, 0).s
    /\ noops' = noops + 1
    /\ UNCHANGED <<p, tick, mixer>>

\* lines 145-147: a call on a state that is not alive returns at once
StepDead(dt, pitch_in, yaw_in) ==
    /\ ~s.alive
    /\ noops' = noops + 1
    /\ UNCHANGED <<p, s, tick, mixer>>

\* lines 149-268: a call on an alive state
StepAlive(dt, pitch_in, yaw_in, r1, r2) ==
    /\ s.alive
    /\ LET r == step_sim(p, s, dt, pitch_in, yaw_in, r1, r2)
       IN  s' = r.s /\ tick' = r.tick
    /\ UNCHANGED <<p, noops, mixer>>

\* A driver that calls step_sim with any arguments (game_3d_opengl.py passes
\* the frame time and the keys held, and goes on calling after the impact)
FreeStep ==
    /\ calls < MaxCalls
    /\ \E dt \in DtChoices, st \in StickChoices, r \in RandChoices :
          StepAlive(dt, st[1], st[2], r[1], r[2])
    /\ calls' = calls + 1
    /\ UNCHANGED auto

DeadStep ==
    /\ calls < MaxCalls
    /\ \E dt \in DtChoices, st \in StickChoices : StepDead(dt, st[1], st[2])
    /\ calls' = calls + 1
    /\ UNCHANGED auto

Init ==
    /\ p \in ParamChoices
    /\ s = reset_state(p)
    /\ tick = NoTick
    /\ calls = 0
    /\ noops = 0
    /\ auto = 0
    /\ mixer = MixIdle

Next == FreeStep \/ DeadStep

Spec == Init /\ [][Next]_vars

-----------------------------------------------------------------------------
(* The mixer as a pure function *)

MixGrid == {k * (ONE \div 10) : k \in -12..12}

InitMix ==
    /\ p = DefaultParams
    /\ s = reset_state(p)
    /\ tick = NoTick
    /\ calls = 0
    /\ noops = 0
    /\ auto = 0
    /\ \E pc \in MixGrid, yc \in MixGrid :
          mixer = [MixIdle EXCEPT !.pitch_cmd = pc, !.yaw_cmd = yc]

Mix ==
    /\ ~mixer.done
    /\ mixer' = [mixer EXCEPT !.done = TRUE,
                              !.out = ruddervator_mix(mixer.pitch_cmd, mixer.yaw_cmd)]
    /\ UNCHANGED <<p, s, tick, calls, noops, auto>>

SpecMix == InitMix /\ [][Mix]_vars

-----------------------------------------------------------------------------
(* The end-to-end glide: default parameters, no wind, no gust, sticks       *)
(* neutral, dt = 1/60, called while alive (dashboard_streamlit.py's loop)   *)

StillAir ==
    [DefaultParams EXCEPT !.wind_x_mps = 0, !.wind_y_mps = 0, !.gust_mps = 0]

InitGlide ==
    /\ p = StillAir
    /\ s = reset_state(p)
    /\ tick = NoTick
    /\ calls = 0
    /\ noops = 0
    /\ auto = 0
    /\ mixer = MixIdle

GlideTick ==
    /\ \E r \in RandChoices : StepAlive(TPS \div 60, 0, 0, r[1], r[2])
    /\ auto' = auto + 1
    /\ UNCHANGED calls

\* The loop "while s.alive" makes its next call: GlideTick is enabled exactly
\* when s.alive holds, and the GlideTick steps are the steps that count a
\* tick. Fairness is stated on this projection of GlideTick onto auto.
GlideCall == s.alive /\ auto' = auto + 1

SpecGlide == InitGlide /\ [][GlideTick]_vars /\ WF_auto(GlideCall)

-----------------------------------------------------------------------------
(* Default parameters, 0 <= dt <= 0.1: free calls right after the reset,     *)
(* or a scripted approach (nose held down, dt = 0.1 s) from the reset to     *)
(* FreeAlt followed by free calls down to the ground                         *)

DtDefault == {0, TPS \div 60, TPS \div 10}

SticksDefault == {<<0, 0>>, <<ONE, 0>>, <<-ONE, ONE>>}

InitDefault ==
    /\ p = DefaultParams
    /\ s = reset_state(p)
    /\ tick = NoTick
    /\ calls = 0
    /\ noops = 0
    /\ auto = 0
    /\ mixer = MixIdle

ApproachTick ==
    /\ calls = 0
    /\ s.alt_m > FreeAlt
    /\ StepAlive(TPS \div 10, -ONE, 0, Half(ONE), Half(ONE))
    /\ auto' = auto + 1
    /\ UNCHANGED calls

DefaultStep ==
    /\ calls < MaxCalls
    /\ (auto = 0) \/ (s.alt_m <= FreeAlt)
    /\ \E dt \in DtDefault, st \in SticksDefault, r \in RandChoices :
          StepAlive(dt, st[1], st[2], r[1], r[2])
    /\ calls' = calls + 1
    /\ UNCHANGED auto

DefaultDead ==
    /\ calls < MaxCalls
    /\ \E dt \in DtDefault, st \in SticksDefault : StepDead(dt, st[1], st[2])
    /\ calls' = calls + 1
    /\ UNCHANGED auto

NextDefault == ApproachTick \/ DefaultStep \/ DefaultDead

SpecDefault == InitDefault /\ [][NextDefault]_vars

-----------------------------------------------------------------------------
(* Claims *)

Last(h) == h[Len(h)]

\* C1: once alive is false, a step_sim call with any arguments leaves every
\* field of the state unchanged (position, altitude, heading, commands,
\* surfaces, effective controls, bank, airspeed, time, alive, impact, hist).
C1_TerminalStateFrozen == [][~s.alive => s' = s]_vars

\* Calls were made on the impacted state, twice or more.
C1_Witness == ~s.alive /\ s.impact.present /\ noops >= 2

C4_HistorySampling ==
    /\ [](\A i \in 1..(Len(s.hist) - 1) :
             s.hist[i + 1].t_s - s.hist[i].t_s > TPS \div 10)
    /\ [][/\ \/ s'.hist = s.hist
             \/ /\ Len(s'.hist) = Len(s.hist) + 1
                /\ SubSeq(s'.hist, 1, Len(s.hist)) = s.hist
          /\ (Len(s'.hist) = Len(s.hist) + 1)
                <=> \/ Len(s.hist) = 0
                    \/ s'.t_s - Last(s.hist).t_s > TPS \div 10]_vars

\* Two or more samples, the last call one with dt <= 0 that appended none.
C4_Witness ==
    Len(s.hist) >= 2 /\ tick.ran /\ tick.dt <= 0 /\ ~tick.sampled

\* C5: with v_min <= v_trim <= v_max, every reachable state has
\* v_min <= v_air_mps <= v_max.
C5_SpeedBounds ==
    (p.v_min <= p.v_trim /\ p.v_trim <= p.v_max)
        => (p.v_min <= s.v_air_mps /\ s.v_air_mps <= p.v_max)

\* A call whose energy update fell below v_min and was clamped up to it.
C5_Witness ==
    tick.ran /\ tick.v0 > p.v_min /\ s.v_air_mps = p.v_min

\* C6: a call on an alive state with dt <= 0 leaves x_m, y_m and alt_m as
\* they were.
C6_NonPositiveDtNoDisplacement ==
    [][(s.alive /\ tick'.ran /\ tick'.dt <= 0)
          => (s'.x_m = s.x_m /\ s'.y_m = s.y_m /\ s'.alt_m = s.alt_m)]_vars

MinDrop == (BaseSink(p.v_min, p.gr_max) * (TPS \div 60)) \div TPS

\* C8: default parameters, no wind or gust, neutral sticks, dt = 1/60: on
\* every tick the altitude drops by at least a fixed positive amount, and
\* alive = false is eventually reached.
C8_GlideTerminates ==
    /\ [][/\ MinDrop > 0
          /\ tick'.alt_upd <= s.alt_m - MinDrop
          /\ s'.alt_m < s.alt_m]_vars
    /\ <>(~s.alive)

\* Five seconds into the glide: still flying on the start heading, slowed to
\* v_min and stalled by speed, lower than at the release.
C8_Witness ==
    /\ s.alive /\ auto = 5 * 60
    /\ s.heading_rad = p.start_heading_deg
    /\ s.v_air_mps = p.v_min /\ tick.stall
    /\ s.alt_m < p.start_alt_m

\* The sink the tick would have without the stall penalties.
UnstalledSink ==
    BankSink(p, BaseSink(tick.v0, compute_glide_ratio(p, s.pitch_eff)), s.bank_deg)

\* C9: the stall condition of a tick is (pitch_eff after the lag update >
\* stall_pitch_eff) or (airspeed at the start of the tick < stall_v). When
\* stalled, the tick's glide ratio is stall_gr_factor times the linear value
\* and its sink is at least stall_sink_boost times the unstalled sink; when
\* not, neither penalty applies. A sample stores the tick's stall (as 1.0 or
\* 0.0) and gr.
C9_StallPenalty ==
    tick.ran =>
        /\ tick.stall <=> (s.pitch_eff > p.stall_pitch_eff \/ tick.v0 < p.stall_v)
        /\ tick.stall =>
              /\ tick.gr = (compute_glide_ratio(p, s.pitch_eff) * p.stall_gr_factor)
                              \div ONE
              /\ tick.gr <= compute_glide_ratio(p, s.pitch_eff)
              /\ tick.sink >= (UnstalledSink * p.stall_sink_boost) \div ONE
        /\ ~tick.stall =>
              /\ tick.gr = compute_glide_ratio(p, s.pitch_eff)
              /\ tick.sink = UnstalledSink
        /\ tick.sampled =>
              /\ Last(s.hist).stall = IF tick.stall THEN ONE ELSE 0
              /\ Last(s.hist).gr = tick.gr

\* A sampled tick stalled by pitch alone, at a speed above stall_v.
C9_Witness ==
    tick.ran /\ tick.stall /\ tick.sampled /\ tick.v0 >= p.stall_v
             /\ s.pitch_eff > p.stall_pitch_eff

====
